---- MODULE Spec2Model ----
(***************************************************************************)
(* The per-item install/uninstall controller and the download progress     *)
(* tracker of web/ModelInstallerExtension.js, for one dialog entry (one    *)
(* key "<directory>/<filename>").  Every await of the source is a point    *)
(* where other handlers may run, so every request is split into the step   *)
(* that issues it and the step that handles its response.                  *)
(***************************************************************************)
EXTENDS Integers, Sequences, FiniteSets, TLC

\* ---------------------------------------------------------------- bounds
\* number of setInterval timers (calls of createOrUpdateProgress) explored
MaxTimers == 3
\* status requests of one timer that may be awaiting their response at once
MaxInflight == 2
\* requests (queries, ticks, click handlers) pending at once
MaxPending == 2
\* click handlers that may be suspended at an await at once
MaxTasks == 1
\* size in bytes of the model file on the server
FileSize == 2
\* byte counts and expected sizes the percentage is computed for
MaxBytes == 12
MaxExpected == 8
\* path segments and query parameters of the URLs handed to normalizeDownloadUrl
MaxPath == 3
MaxParams == 1
\* characters typed into the token dialog
MaxTyped == 2
\* characters of the directory part, of the file's stem and of its extension in a
\* label "<dir> / <file.ext>", and characters of a label of any other shape
MaxDir == 4
MaxStem == 1
MaxExt == 2
MaxFree == 5
\* storage options a status response may list for the directory of the item
MaxOptions == 3
\* status queries one controller issues in a run of the query race
MaxQueries == 2

VARIABLES
  feature,      \* init(): awaiting the health check, inactive, observing, row bound
  arg,          \* the argument of a helper function called on its own
  res,          \* what the helper returned for it
  ident,        \* resolved identity: directory/filename known, url known
  btnText,      \* btn.textContent
  btnDisabled,  \* btn.disabled
  btnTitle,     \* btn.title (tooltip)
  pathDisabled, \* pathSelector.disabled
  handler,      \* btn.onclick: unset, or the closure over the js of a query
  queries,      \* calls of query() awaiting their status response
  tasks,        \* activations of btn.onclick suspended at an await
  rows,         \* the row elements created for the key
  timers,       \* the setInterval timers created for the key
  lookups,      \* expected-size lookups awaiting their response
  srv,          \* the server's state of the model file
  ev            \* what the last step did: the request issued, the text alerted

vars == <<feature, arg, res, ident, btnText, btnDisabled, btnTitle, pathDisabled, handler,
          queries,
          tasks, rows, timers, lookups, srv, ev>>

\* what no handler of the controller, of the tracker or of the server writes
apart == <<feature, arg, res, ident>>

\* ---------------------------------------------------------------- labels
LblInit == "..."
LblInstall == "Install"
LblUninstall == "Uninstall"
\* 'Downloading…' in the source (the ellipsis is one character there)
LblDownloading == "Downloading..."
\* named by the README and the spec; no statement of the source assigns it
LblRetry == "Retry Install"

MsgInsufficient == "Insufficient information to install"
MsgOpFailed == "operation failed"
MsgLoginFailed == "Login failed"
MsgTokenRequired == "A Hugging Face access token is required"
MsgTransport == "Failed to fetch"
ErrFirst == "first error"
ErrAuth == "authentication required"
ErrRetry == "retry error"
ErrLogin == "login error"
ErrDisk == "disk full"

\* ---------------------------------------------------------------- server
ServerStates == {"idle", "downloading", "failed"}

SrvValues == [st : ServerStates, size : 0..FileSize]

\* GET /models/status answered from the server's state
StatusOf(s) ==
  [present |-> s.size > 0,
   state   |-> s.st,
   size    |-> s.size,
   error   |-> IF s.st = "failed" THEN ErrDisk ELSE ""]

\* where the server keeps the file of the item: its folder name, and the places the
\* status response may name as path (separators of either platform)
ServerFolder == "checkpoints"
ServerPaths == {<<"m", "/", "f", ".", "s">>, <<"m", "/", "d", "\\", "f", ".", "s">>}

\* GET /models/status as query() reads it: with folder and path when the file is there
StatusAnswers(s) ==
  IF s.size > 0
  THEN {StatusOf(s) @@ [folder |-> ServerFolder, path |-> p] : p \in ServerPaths}
  ELSE {StatusOf(s) @@ [folder |-> "", path |-> <<>>]}

\* GET /models/expected_size: best effort, the true size or nothing
ExpectedAnswers == {0, FileSize}

\* responses to POST /models/install and /models/uninstall
RespOk == [status |-> 200, code |-> "", error |-> ""]
RespAuth == [status |-> 401, code |-> "auth_required", error |-> ErrAuth]
RespNone == [status |-> 0, code |-> "", error |-> ""]

PostResponses(err) ==
  {RespOk, RespAuth,
   [status |-> 401, code |-> "", error |-> err],
   [status |-> 500, code |-> "", error |-> err],
   [status |-> 500, code |-> "", error |-> ""]}

LoginResponses ==
  {RespOk,
   [status |-> 403, code |-> "", error |-> ErrLogin],
   [status |-> 500, code |-> "", error |-> ""]}

\* Response.ok
Ok(r) == r.status >= 200 /\ r.status <= 299

\* ---------------------------------------------------------------- helpers
NoEv ==
  [kind |-> "none", timer |-> 0, present |-> FALSE, state |-> "", total |-> 0,
   bytes |-> 0, ep |-> "", label |-> "", inst |-> FALSE, msg |-> "", alert |-> "",
   body |-> <<>>, task |-> 0, typed |-> <<>>]

NoHandler == [set |-> FALSE, present |-> FALSE, state |-> "", folder |-> "", path |-> <<>>]

IdleTask ==
  [pc |-> "idle", installing |-> FALSE, present |-> FALSE, posts |-> 0,
   r1 |-> RespNone, tok |-> <<>>, lr |-> RespNone, dlgMsg |-> FALSE, resolved |-> 0]

NoRow == [state |-> "unused", expected |-> 0, dismissed |-> FALSE, pendingRemove |-> FALSE]

NoTimer == [used |-> FALSE, active |-> FALSE, row |-> 0, expected |-> 0, inflight |-> 0]

TaskIds == 1..MaxTasks
TimerIds == 1..MaxTimers

RECURSIVE SumInflight(_)
SumInflight(n) == IF n = 0 THEN 0 ELSE timers[n].inflight + SumInflight(n - 1)

TasksInFlight == Cardinality({i \in TaskIds : tasks[i].pc # "idle"})
UsedTimers == Cardinality({t \in TimerIds : timers[t].used})
Pending == queries + SumInflight(MaxTimers) + TasksInFlight

Min(S) == CHOOSE x \in S : \A y \in S : x <= y

\* the texts of at most n characters of S
RECURSIVE SeqsUpTo(_, _)
SeqsUpTo(S, n) ==
  IF n = 0 THEN {<<>>}
  ELSE LET shorter == SeqsUpTo(S, n - 1)
       IN  shorter \cup {Append(q, x) : q \in shorter, x \in S}

\* panel.querySelector(`[data-key="${key}"]`): the row attached to the panel, or 0
AttachedRow ==
  IF \E r \in TimerIds : rows[r].state = "attached"
  THEN CHOOSE r \in TimerIds : rows[r].state = "attached"
  ELSE 0

TypeOK ==
  /\ feature \in {"checking", "inactive", "observing", "bound"}
  /\ ident \in [df : BOOLEAN, url : BOOLEAN]
  /\ btnText \in {LblInit, LblInstall, LblUninstall, LblDownloading, LblRetry}
  /\ btnDisabled \in BOOLEAN
  /\ pathDisabled \in BOOLEAN
  /\ handler \in [set : BOOLEAN, present : BOOLEAN, state : ServerStates \cup {""},
                  folder : {"", ServerFolder}, path : ServerPaths \cup {<<>>}]
  /\ queries \in 0..MaxPending
  /\ lookups \in 0..MaxTimers
  /\ srv \in SrvValues
  /\ \A i \in TaskIds : tasks[i].pc \in {"idle", "post1", "prompt", "login", "post2"}
  /\ \A t \in TimerIds : timers[t].inflight \in 0..MaxInflight
  /\ Cardinality({r \in TimerIds : rows[r].state = "attached"}) <= 1

\* ---------------------------------------------------------------- Init
\* The state after the row binder has built the controller and called query().
Init ==
  /\ feature = "bound"
  /\ arg = <<>>
  /\ res = <<>>
  /\ ident \in [df : BOOLEAN, url : BOOLEAN]
  /\ btnText = LblInit
  /\ btnDisabled = FALSE
  /\ btnTitle = ""
  /\ pathDisabled = FALSE
  /\ handler = NoHandler
  /\ queries = 1
  /\ tasks = [i \in TaskIds |-> IdleTask]
  /\ rows = [r \in TimerIds |-> NoRow]
  /\ timers = [t \in TimerIds |-> NoTimer]
  /\ lookups = 0
  /\ srv \in {s \in SrvValues : s.st # "downloading" => s.size \in {0, FileSize}}
  /\ ev = NoEv

\* ---------------------------------------------------------------- controller
\* SetLabel with the label of an installed item whatever the argument
SetLabelInstalled(installed) == LblUninstall

\* setLabel(installed): btn.textContent = installed ? 'Uninstall' : 'Install'
SetLabel(installed) == IF installed THEN LblUninstall ELSE LblInstall

\* query(): the label chosen for a status response
QueryLabel(js) ==
  IF js.state = "downloading" THEN LblDownloading ELSE SetLabel(js.present)

\* query(): btn.disabled (and pathSelector.disabled) chosen for a status response
QueryDisabled(js) == js.state = "downloading"

\* query(): the parameters of the status request, directory and filename when both are
\* known, else the url when it is known, else none
QueryString ==
  IF ident.df THEN "directory&filename" ELSE IF ident.url THEN "url" ELSE ""

\* query(): btn.onclick = async () => {...}, the closure over js
Closure(js) ==
  [set |-> TRUE, present |-> js.present, state |-> js.state, folder |-> js.folder,
   path |-> js.path]

\* query(): what it does with the js of a response
ApplyStatus(js) ==
  /\ btnText' = QueryLabel(js)
  /\ btnDisabled' = QueryDisabled(js)
  /\ pathDisabled' = QueryDisabled(js)
  /\ handler' = Closure(js)

\* query(), the response of the status request arrives and parses
QueryOk ==
  /\ queries > 0
  /\ \E js \in StatusAnswers(srv) :
       /\ ApplyStatus(js)
       /\ ev' = [NoEv EXCEPT !.kind = "status", !.present = js.present,
                             !.state = js.state, !.msg = js.error, !.ep = QueryString]
  /\ queries' = queries - 1
  /\ UNCHANGED <<apart, btnTitle, tasks, rows, timers, lookups, srv>>

\* query(), the status request or the parsing of its response throws
QueryFail ==
  /\ queries > 0
  /\ btnText' = SetLabel(FALSE)
  /\ queries' = queries - 1
  /\ ev' = [NoEv EXCEPT !.kind = "queryFail", !.ep = QueryString]
  /\ UNCHANGED <<apart, btnDisabled, btnTitle, pathDisabled, handler, tasks, rows,
                 timers, lookups, srv>>

\* btn.onclick: the intent read off the label, (textContent).trim().toLowerCase() !== 'uninstall'
Installing(text) == text # LblUninstall

\* btn.onclick: the endpoint, chosen by the js.present the handler closed over
Ep(present) == IF present THEN "/models/uninstall" ELSE "/models/install"

\* the directory and the filename the label of the dialog entry resolved to
ItemDirectory == "text_encoders"
ItemFilename == <<"c", ".", "s">>

\* String.prototype.split on a set of separator characters: the pieces between them
RECURSIVE SplitAt(_, _)
SplitAt(p, seps) ==
  IF \E i \in 1..Len(p) : p[i] \in seps
  THEN LET i == Min({k \in 1..Len(p) : p[k] \in seps})
       IN  <<SubSeq(p, 1, i - 1)>> \o SplitAt(SubSeq(p, i + 1, Len(p)), seps)
  ELSE <<p>>

\* Array.prototype.pop: the last piece
Pop(parts) == parts[Len(parts)]

\* Basename with '/' as the only separator
BasenameSlashOnly(path) == Pop(SplitAt(path, {"/"}))

\* (js.path || '').split(/[\\/]/).pop()
Basename(path) == Pop(SplitAt(path, {"/", "\\"}))

\* btn.onclick: the body of the request, by the js the handler closed over; the url of
\* an install is normalizeDownloadUrl(url), see NormalizeDownloadUrl
Body(js) ==
  IF js.present
  THEN [directory |-> js.folder, name |-> Basename(js.path)]
  ELSE [name |-> ItemFilename, directory |-> ItemDirectory, url |-> "url"]

\* HasBody content with the url alone
HasBodyByUrl(present) == present \/ ident.url

\* btn.onclick: whether a request body can be built
HasBody(present) == present \/ (ident.url /\ ident.df)

\* the "Reset UI on failure" blocks of btn.onclick
ResetUI(installing) ==
  IF installing
  THEN /\ btnText' = LblInstall
       /\ btnDisabled' = FALSE
       /\ pathDisabled' = FALSE
  ELSE /\ btnDisabled' = FALSE
       /\ UNCHANGED <<btnText, pathDisabled>>

\* r.error || 'operation failed'
ErrorText(r, fallback) == IF r.error # "" THEN r.error ELSE fallback

FreeTask == Min({i \in TaskIds : tasks[i].pc = "idle"})

CanClick ==
  /\ handler.set
  /\ ~btnDisabled
  /\ \E i \in TaskIds : tasks[i].pc = "idle"
  /\ Pending < MaxPending
  /\ UsedTimers + TasksInFlight < MaxTimers

\* btn.onclick throws 'Insufficient information to install' before any request
ClickInsufficient ==
  /\ CanClick
  /\ ~HasBody(handler.present)
  /\ ResetUI(Installing(btnText))
  /\ ev' = [NoEv EXCEPT !.kind = "insufficient", !.alert = MsgInsufficient]
  /\ UNCHANGED <<apart, btnTitle, handler, queries, tasks, rows, timers, lookups, srv>>

\* btn.onclick up to its first await: the POST is issued
ClickPost ==
  /\ CanClick
  /\ HasBody(handler.present)
  /\ LET installing == Installing(btnText) IN
       /\ IF installing
          THEN /\ btnText' = LblDownloading
               /\ btnDisabled' = TRUE
               /\ pathDisabled' = TRUE
          ELSE /\ btnDisabled' = TRUE
               /\ UNCHANGED <<btnText, pathDisabled>>
       /\ tasks' = [tasks EXCEPT ![FreeTask] =
                      [IdleTask EXCEPT !.pc = "post1", !.installing = installing,
                                       !.present = handler.present, !.posts = 1]]
       /\ ev' = [NoEv EXCEPT !.kind = "post", !.ep = Ep(handler.present), !.label = btnText,
                             !.body = Body(handler)]
  /\ UNCHANGED <<apart, btnTitle, handler, queries, rows, timers, lookups, srv>>

\* ---------------------------------------------------------------- tracker
FreeTimer == Min({t \in TimerIds : ~timers[t].used})
FreeRow == Min({r \in TimerIds : rows[r].state = "unused"})

\* createOrUpdateProgress: the row the new timer closes over (found, or created)
TrackRow == IF AttachedRow # 0 THEN AttachedRow ELSE FreeRow

\* createOrUpdateProgress: a row is appended only when the key has none in the panel
TrackRows ==
  IF AttachedRow # 0 THEN rows
  ELSE [rows EXCEPT ![FreeRow] = [NoRow EXCEPT !.state = "attached"]]

\* createOrUpdateProgress: setInterval is called on every call; the callback closes
\* over the row and the expected argument
TrackTimers(expected) ==
  [timers EXCEPT ![FreeTimer] =
     [used |-> TRUE, active |-> TRUE, row |-> TrackRow, expected |-> expected,
      inflight |-> 0]]

\* updateDownloadExpected(key, e) on the rows rs: only a row of the panel is written
UpdateExpected(rs, e) ==
  IF \E r \in TimerIds : rs[r].state = "attached"
  THEN [rs EXCEPT ![CHOOSE r \in TimerIds : rs[r].state = "attached"].expected = e]
  ELSE rs

\* startDownloadProgress({..., expected: 0, onComplete}) followed by the async block
\* that looks the size up: without a url the block runs to its end at once with exp = 0
StartTracking ==
  /\ timers' = TrackTimers(0)
  /\ IF ident.url
     THEN rows' = TrackRows /\ lookups' = lookups + 1
     ELSE rows' = UpdateExpected(TrackRows, 0) /\ UNCHANGED lookups

\* the server's state once it has accepted a POST to the endpoint
Accepted(present) ==
  IF present THEN [st |-> "idle", size |-> 0] ELSE [st |-> "downloading", size |-> 0]

\* r.status === 401 && jr && jr.error_code === 'auth_required'
AuthRequired(r) == r.status = 401 /\ r.code = "auth_required"

\* what may be in the input of the token dialog when it is submitted
TypedValues == SeqsUpTo({" ", "t"}, MaxTyped)

RECURSIVE TrimStart(_)
TrimStart(v) == IF v # <<>> /\ v[1] = " " THEN TrimStart(Tail(v)) ELSE v

RECURSIVE TrimEnd(_)
TrimEnd(v) ==
  IF v # <<>> /\ v[Len(v)] = " " THEN TrimEnd(SubSeq(v, 1, Len(v) - 1)) ELSE v

\* Trim leaving the blanks at the end
TrimStartOnly(v) == TrimStart(v)

\* String.prototype.trim
Trim(v) == TrimEnd(TrimStart(v))

\* token && token.trim().length > 0
TokenGiven(tok) == Len(Trim(tok)) > 0

\* RetryAllowed with the login's status ignored
RetryAfterAnyLogin(lr) == TRUE

\* if (lr.ok): the one retry is allowed
RetryAllowed(lr) == Ok(lr)

FinishTask(i) == tasks' = [tasks EXCEPT ![i] = IdleTask]

\* btn.onclick, first POST: fetch rejects; the catch block alerts and resets
Post1Throw(i) ==
  /\ tasks[i].pc = "post1"
  /\ ResetUI(tasks[i].installing)
  /\ FinishTask(i)
  /\ ev' = [NoEv EXCEPT !.kind = "postFail", !.alert = MsgTransport,
                        !.inst = tasks[i].installing, !.present = tasks[i].present]
  /\ UNCHANGED <<apart, btnTitle, handler, queries, rows, timers, lookups, srv>>

\* btn.onclick, first POST: a non-2xx response that is not the handled auth case
Post1Error(i, r) ==
  /\ tasks[i].pc = "post1"
  /\ ~Ok(r) /\ ~AuthRequired(r)
  /\ ResetUI(tasks[i].installing)
  /\ FinishTask(i)
  /\ ev' = [NoEv EXCEPT !.kind = "postFail", !.alert = ErrorText(r, MsgOpFailed),
                        !.msg = r.error,
                        !.inst = tasks[i].installing, !.present = tasks[i].present]
  /\ UNCHANGED <<apart, btnTitle, handler, queries, rows, timers, lookups, srv>>

\* btn.onclick, first POST: 401 auth_required opens the token dialog
Post1Auth(i, r) ==
  /\ tasks[i].pc = "post1"
  /\ ~Ok(r) /\ AuthRequired(r)
  /\ tasks' = [tasks EXCEPT ![i].pc = "prompt", ![i].r1 = r]
  /\ ev' = NoEv
  /\ UNCHANGED <<apart, btnText, btnDisabled, btnTitle, pathDisabled, handler, queries,
                 rows, timers, lookups, srv>>

\* btn.onclick, first POST accepted: the tracker starts (install) or query() runs again
Post1Accepted(i, r) ==
  /\ tasks[i].pc = "post1"
  /\ Ok(r)
  /\ srv' = Accepted(tasks[i].present)
  /\ IF tasks[i].installing
     THEN /\ StartTracking
          /\ UNCHANGED queries
     ELSE /\ queries' = queries + 1
          /\ UNCHANGED <<rows, timers, lookups>>
  /\ ev' = [NoEv EXCEPT !.kind = "accepted", !.inst = tasks[i].installing,
                        !.present = tasks[i].present]
  /\ FinishTask(i)
  /\ UNCHANGED <<apart, btnText, btnDisabled, btnTitle, pathDisabled, handler>>

\* openHfTokenDialog, submit with nothing but blanks typed: the dialog stays, with
\* its message
PromptEmpty(i, v) ==
  /\ tasks[i].pc = "prompt"
  /\ Trim(v) = <<>>
  /\ tasks' = [tasks EXCEPT ![i].dlgMsg = TRUE]
  /\ ev' = [NoEv EXCEPT !.kind = "emptySubmit", !.task = i, !.typed = v]
  /\ UNCHANGED <<apart, btnText, btnDisabled, btnTitle, pathDisabled, handler, queries,
                 rows, timers, lookups, srv>>

\* openHfTokenDialog, submit with a token typed: the dialog is destroyed and resolves
\* with the trimmed value; btn.onclick posts it to /auth/hf_login
PromptSubmit(i, v) ==
  /\ tasks[i].pc = "prompt"
  /\ Trim(v) # <<>>
  /\ TokenGiven(Trim(v))
  /\ tasks' = [tasks EXCEPT ![i].pc = "login", ![i].tok = Trim(v),
                            ![i].resolved = @ + 1]
  /\ ev' = [NoEv EXCEPT !.kind = "submit", !.task = i, !.typed = v]
  /\ UNCHANGED <<apart, btnText, btnDisabled, btnTitle, pathDisabled, handler, queries,
                 rows, timers, lookups, srv>>

\* openHfTokenDialog resolves with null (Cancel); btn.onclick alerts and resets
PromptCancel(i) ==
  /\ tasks[i].pc = "prompt"
  /\ ResetUI(tasks[i].installing)
  /\ FinishTask(i)
  /\ ev' = [NoEv EXCEPT !.kind = "promptCancel", !.task = i, !.alert = MsgTokenRequired]
  /\ UNCHANGED <<apart, btnTitle, handler, queries, rows, timers, lookups, srv>>

\* btn.onclick, login POST: fetch rejects; the catch block alerts and resets
LoginThrow(i) ==
  /\ tasks[i].pc = "login"
  /\ ResetUI(tasks[i].installing)
  /\ FinishTask(i)
  /\ ev' = [NoEv EXCEPT !.kind = "loginFail", !.alert = MsgTransport]
  /\ UNCHANGED <<apart, btnTitle, handler, queries, rows, timers, lookups, srv>>

\* btn.onclick, login POST answered non-2xx: alert, reset, no retry
LoginRejected(i, lr) ==
  /\ tasks[i].pc = "login"
  /\ ~RetryAllowed(lr)
  /\ ResetUI(tasks[i].installing)
  /\ FinishTask(i)
  /\ ev' = [NoEv EXCEPT !.kind = "loginFail", !.alert = ErrorText(lr, MsgLoginFailed)]
  /\ UNCHANGED <<apart, btnTitle, handler, queries, rows, timers, lookups, srv>>

\* btn.onclick, login POST answered 2xx: the same request is posted once more
LoginOk(i, lr) ==
  /\ tasks[i].pc = "login"
  /\ RetryAllowed(lr)
  /\ tasks' = [tasks EXCEPT ![i].pc = "post2", ![i].lr = lr, ![i].posts = @ + 1]
  /\ ev' = [NoEv EXCEPT !.kind = "repost", !.ep = Ep(tasks[i].present)]
  /\ UNCHANGED <<apart, btnText, btnDisabled, btnTitle, pathDisabled, handler, queries,
                 rows, timers, lookups, srv>>

\* btn.onclick, retry POST: fetch rejects; the catch block alerts and resets
Post2Throw(i) ==
  /\ tasks[i].pc = "post2"
  /\ ResetUI(tasks[i].installing)
  /\ FinishTask(i)
  /\ ev' = [NoEv EXCEPT !.kind = "retryFail", !.inst = tasks[i].installing,
                        !.msg = MsgTransport, !.alert = MsgTransport]
  /\ UNCHANGED <<apart, btnTitle, handler, queries, rows, timers, lookups, srv>>

\* the text alerted when the retry is answered non-2xx: new Error(rj.error || ...)
RetryFailText(r1, rj) == ErrorText(rj, MsgOpFailed)

\* btn.onclick, retry POST answered non-2xx: throws, the catch block alerts and resets
Post2Error(i, rj) ==
  /\ tasks[i].pc = "post2"
  /\ ~Ok(rj)
  /\ ResetUI(tasks[i].installing)
  /\ FinishTask(i)
  /\ ev' = [NoEv EXCEPT !.kind = "retryFail", !.inst = tasks[i].installing,
                        !.msg = ErrorText(rj, MsgOpFailed),
                        !.alert = RetryFailText(tasks[i].r1, rj)]
  /\ UNCHANGED <<apart, btnTitle, handler, queries, rows, timers, lookups, srv>>

\* btn.onclick, retry POST accepted: 'Downloading…', disabled, the tracker starts
Post2Accepted(i, rj) ==
  /\ tasks[i].pc = "post2"
  /\ Ok(rj)
  /\ srv' = Accepted(tasks[i].present)
  /\ btnText' = LblDownloading
  /\ btnDisabled' = TRUE
  /\ StartTracking
  /\ FinishTask(i)
  /\ ev' = [NoEv EXCEPT !.kind = "retryOk", !.inst = tasks[i].installing,
                        !.present = tasks[i].present]
  /\ UNCHANGED <<apart, btnTitle, pathDisabled, handler, queries>>

\* a timer that can still run code: not cleared, or a tick of it awaits its response
Live(ts, t) == ts[t].active \/ ts[t].inflight > 0

\* A cleared timer with no tick left never reads its row again, and a row out of the
\* panel that no live timer closes over is never read or written again (row.remove()
\* on it does nothing): both are garbage, kept in one canonical form.
Collect(rs, ts) ==
  [r \in TimerIds |->
     IF rs[r].state = "detached"
     THEN IF \E t \in TimerIds : Live(ts, t) /\ ts[t].row = r
          THEN [rs[r] EXCEPT !.pendingRemove = FALSE]
          ELSE [NoRow EXCEPT !.state = "detached"]
     ELSE rs[r]]

Forget(ts) ==
  [t \in TimerIds |-> IF ts[t].used /\ ~Live(ts, t) THEN [ts[t] EXCEPT !.row = 0] ELSE ts[t]]

\* Total with the size written on the row ignored
TotalArgumentOnly(dynamicExpected, expected) == expected

\* const total = dynamicExpected || expected || 0
Total(dynamicExpected, expected) ==
  IF dynamicExpected # 0 THEN dynamicExpected
  ELSE IF expected # 0 THEN expected ELSE 0

\* Complete without the test of total > 0
CompleteUnknownTotal(present, total, bytes) == present /\ bytes >= total

\* if (j.present && total > 0 && bytes >= total)
Complete(present, total, bytes) == present /\ total > 0 /\ bytes >= total

\* the close button of a row: row.remove(), and nothing else
DismissRow(r) == [rows EXCEPT ![r].state = "detached", ![r].dismissed = TRUE]

\* the close button's effect on the timers: none, clearInterval is not called
DismissTimers(r) == timers

\* the user presses the close button of the row shown in the panel
Dismiss ==
  /\ AttachedRow # 0
  /\ rows' = Collect(DismissRow(AttachedRow), DismissTimers(AttachedRow))
  /\ timers' = DismissTimers(AttachedRow)
  /\ ev' = NoEv
  /\ UNCHANGED <<apart, btnText, btnDisabled, btnTitle, pathDisabled, handler, queries,
                 tasks, lookups, srv>>

\* setTimeout(() => row.remove(), 2500) of a completed timer fires
AutoRemove(r) ==
  /\ rows[r].pendingRemove
  /\ rows' = Collect([rows EXCEPT ![r].pendingRemove = FALSE,
                                  ![r].state = IF @ = "attached" THEN "detached" ELSE @],
                     timers)
  /\ ev' = NoEv
  /\ UNCHANGED <<apart, btnText, btnDisabled, btnTitle, pathDisabled, handler, queries,
                 tasks, timers, lookups, srv>>

\* the interval of timer t elapses: its callback issues a status request
TickFire(t) ==
  /\ timers[t].active
  /\ timers[t].inflight < MaxInflight
  /\ Pending < MaxPending
  /\ timers' = [timers EXCEPT ![t].inflight = @ + 1]
  /\ ev' = [NoEv EXCEPT !.kind = "poll", !.timer = t]
  /\ UNCHANGED <<apart, btnText, btnDisabled, btnTitle, pathDisabled, handler, queries,
                 tasks, rows, lookups, srv>>

\* a tick's status request or the parsing of its response throws: logged only
TickFail(t) ==
  /\ timers[t].inflight > 0
  /\ LET ts == [timers EXCEPT ![t].inflight = @ - 1] IN
       /\ timers' = Forget(ts)
       /\ rows' = Collect(rows, ts)
  /\ ev' = NoEv
  /\ UNCHANGED <<apart, btnText, btnDisabled, btnTitle, pathDisabled, handler, queries,
                 tasks, lookups, srv>>

\* a tick's status response arrives: progress is shown, completion is tested
TickResp(t) ==
  /\ timers[t].inflight > 0
  /\ LET j == StatusOf(srv)
         bytes == j.size
         total == Total(rows[timers[t].row].expected, timers[t].expected)
         done == [timers EXCEPT ![t].inflight = @ - 1, ![t].active = FALSE]
         more == [timers EXCEPT ![t].inflight = @ - 1]
     IN  /\ ev' = [NoEv EXCEPT !.kind = "tick", !.timer = t, !.present = j.present,
                                !.total = total, !.bytes = bytes]
         /\ IF Complete(j.present, total, bytes)
            THEN /\ timers' = Forget(done)
                 /\ rows' = Collect([rows EXCEPT ![timers[t].row].pendingRemove = TRUE],
                                    done)
                 /\ queries' = queries + 1
            ELSE /\ timers' = Forget(more)
                 /\ rows' = Collect(rows, more)
                 /\ UNCHANGED queries
  /\ UNCHANGED <<apart, btnText, btnDisabled, btnTitle, pathDisabled, handler, tasks,
                 lookups, srv>>

\* FetchExpected passing a failure on as a size of its own
FetchExpectedOrFail(answered, expected) == IF answered THEN expected ELSE -1

\* fetchExpected: j.expected || 0 of the response, 0 when the request or the parsing
\* throws
FetchExpected(answered, expected) ==
  IF answered THEN (IF expected # 0 THEN expected ELSE 0) ELSE 0

\* the lookup is answered (e = 0: without an expected field); updateDownloadExpected
\* applies what fetchExpected returns
LookupResp(e) ==
  /\ lookups > 0
  /\ lookups' = lookups - 1
  /\ rows' = UpdateExpected(rows, FetchExpected(TRUE, e))
  /\ ev' = [NoEv EXCEPT !.kind = "lookup", !.total = e]
  /\ UNCHANGED <<apart, btnText, btnDisabled, btnTitle, pathDisabled, handler, queries,
                 tasks, timers, srv>>

\* the lookup's request or parsing throws; updateDownloadExpected applies what
\* fetchExpected returns
LookupFail ==
  /\ lookups > 0
  /\ lookups' = lookups - 1
  /\ rows' = UpdateExpected(rows, FetchExpected(FALSE, 0))
  /\ ev' = [NoEv EXCEPT !.kind = "lookupFail"]
  /\ UNCHANGED <<apart, btnText, btnDisabled, btnTitle, pathDisabled, handler, queries,
                 tasks, timers, srv>>

\* ---------------------------------------------------------------- server
SrvOnly ==
  /\ ev' = NoEv
  /\ UNCHANGED <<apart, btnText, btnDisabled, btnTitle, pathDisabled, handler, queries,
                 tasks, rows, timers, lookups>>

\* the download writes more of the file
SrvProgress ==
  /\ srv.st = "downloading" /\ srv.size < FileSize
  /\ srv' = [srv EXCEPT !.size = @ + 1]
  /\ SrvOnly

\* the download finishes
SrvFinish ==
  /\ srv.st = "downloading" /\ srv.size = FileSize
  /\ srv' = [srv EXCEPT !.st = "idle"]
  /\ SrvOnly

\* the download fails and its partial file is removed
SrvFail ==
  /\ srv.st = "downloading"
  /\ srv' = [st |-> "failed", size |-> 0]
  /\ SrvOnly

\* ---------------------------------------------------------------- specification
Next ==
  \/ QueryOk
  \/ QueryFail
  \/ ClickInsufficient
  \/ ClickPost
  \/ \E i \in TaskIds : Post1Throw(i)
  \/ \E i \in TaskIds : \E r \in PostResponses(ErrFirst) : Post1Error(i, r)
  \/ \E i \in TaskIds : \E r \in PostResponses(ErrFirst) : Post1Auth(i, r)
  \/ \E i \in TaskIds : \E r \in PostResponses(ErrFirst) : Post1Accepted(i, r)
  \/ \E i \in TaskIds : \E v \in TypedValues : PromptEmpty(i, v)
  \/ \E i \in TaskIds : \E v \in TypedValues : PromptSubmit(i, v)
  \/ \E i \in TaskIds : PromptCancel(i)
  \/ \E i \in TaskIds : LoginThrow(i)
  \/ \E i \in TaskIds : \E lr \in LoginResponses : LoginRejected(i, lr)
  \/ \E i \in TaskIds : \E lr \in LoginResponses : LoginOk(i, lr)
  \/ \E i \in TaskIds : Post2Throw(i)
  \/ \E i \in TaskIds : \E r \in PostResponses(ErrRetry) : Post2Error(i, r)
  \/ \E i \in TaskIds : \E r \in PostResponses(ErrRetry) : Post2Accepted(i, r)
  \/ Dismiss
  \/ \E r \in TimerIds : AutoRemove(r)
  \/ \E t \in TimerIds : TickFire(t)
  \/ \E t \in TimerIds : TickFail(t)
  \/ \E t \in TimerIds : TickResp(t)
  \/ \E e \in ExpectedAnswers : LookupResp(e)
  \/ LookupFail
  \/ SrvProgress
  \/ SrvFinish
  \/ SrvFail

Spec == Init /\ [][Next]_vars

\* The tracker timer keeps firing and status requests succeed: the behaviours in which
\* no status request fails, every running timer fires again and again, and every
\* response arrives.  TickFire is held back only by the bound on pending requests,
\* which setInterval does not know, hence strong fairness for it.
LiveNext ==
  \/ QueryOk
  \/ ClickInsufficient
  \/ ClickPost
  \/ \E i \in TaskIds : Post1Throw(i)
  \/ \E i \in TaskIds : \E r \in PostResponses(ErrFirst) : Post1Error(i, r)
  \/ \E i \in TaskIds : \E r \in PostResponses(ErrFirst) : Post1Auth(i, r)
  \/ \E i \in TaskIds : \E r \in PostResponses(ErrFirst) : Post1Accepted(i, r)
  \/ \E i \in TaskIds : \E v \in TypedValues : PromptEmpty(i, v)
  \/ \E i \in TaskIds : \E v \in TypedValues : PromptSubmit(i, v)
  \/ \E i \in TaskIds : PromptCancel(i)
  \/ \E i \in TaskIds : LoginThrow(i)
  \/ \E i \in TaskIds : \E lr \in LoginResponses : LoginRejected(i, lr)
  \/ \E i \in TaskIds : \E lr \in LoginResponses : LoginOk(i, lr)
  \/ \E i \in TaskIds : Post2Throw(i)
  \/ \E i \in TaskIds : \E r \in PostResponses(ErrRetry) : Post2Error(i, r)
  \/ \E i \in TaskIds : \E r \in PostResponses(ErrRetry) : Post2Accepted(i, r)
  \/ Dismiss
  \/ \E r \in TimerIds : AutoRemove(r)
  \/ \E t \in TimerIds : TickFire(t)
  \/ \E t \in TimerIds : TickResp(t)
  \/ \E e \in ExpectedAnswers : LookupResp(e)
  \/ LookupFail
  \/ SrvProgress
  \/ SrvFinish
  \/ SrvFail

Fairness ==
  /\ WF_vars(QueryOk)
  /\ \A t \in TimerIds : SF_vars(TickFire(t)) /\ WF_vars(TickResp(t))

LiveSpec == Init /\ [][LiveNext]_vars /\ Fairness

\* ---------------------------------------------------------------- activation
\* init() from its first line: the health check decides whether the observer that
\* builds the controller of the entry is installed at all
\* what GET /model_installer/health may answer: response.ok, and data.ok as a truth value
HealthAnswers == [ok : BOOLEAN, dataOk : BOOLEAN, threw : {FALSE}]
HealthThrown == [ok |-> FALSE, dataOk |-> FALSE, threw |-> TRUE]

\* isModelInstallerAvailable trusting the status line alone
AvailableByStatus(r) == r.ok

\* isModelInstallerAvailable: return response.ok && data.ok
Available(r) == r.ok /\ r.dataOk

GateInit ==
  /\ feature = "checking"
  /\ arg = <<>>
  /\ res = <<>>
  /\ ident \in [df : BOOLEAN, url : BOOLEAN]
  /\ btnText = LblInit
  /\ btnDisabled = FALSE
  /\ btnTitle = ""
  /\ pathDisabled = FALSE
  /\ handler = NoHandler
  /\ queries = 0
  /\ tasks = [i \in TaskIds |-> IdleTask]
  /\ rows = [r \in TimerIds |-> NoRow]
  /\ timers = [t \in TimerIds |-> NoTimer]
  /\ lookups = 0
  /\ srv \in {s \in SrvValues : s.st # "downloading" => s.size \in {0, FileSize}}
  /\ ev = NoEv

\* the health request is answered and its body parses; if (!available) return
HealthResp(r) ==
  /\ feature = "checking"
  /\ feature' = IF Available(r) THEN "observing" ELSE "inactive"
  /\ arg' = r
  /\ ev' = [NoEv EXCEPT !.kind = "health"]
  /\ UNCHANGED <<res, ident, btnText, btnDisabled, btnTitle, pathDisabled, handler, queries,
                 tasks, rows, timers, lookups, srv>>

\* the health request or the parsing of its body throws: catch { return false }
HealthThrow ==
  /\ feature = "checking"
  /\ feature' = "inactive"
  /\ arg' = HealthThrown
  /\ ev' = [NoEv EXCEPT !.kind = "healthThrow"]
  /\ UNCHANGED <<res, ident, btnText, btnDisabled, btnTitle, pathDisabled, handler, queries,
                 tasks, rows, timers, lookups, srv>>

\* the observer's callback meets the entry: it injects the button ('...') and calls
\* query(); the injected container keeps it from building a second controller
Bind ==
  /\ feature = "observing"
  /\ feature' = "bound"
  /\ btnText' = LblInit
  /\ btnDisabled' = FALSE
  /\ pathDisabled' = FALSE
  /\ handler' = NoHandler
  /\ queries' = 1
  /\ ev' = [NoEv EXCEPT !.kind = "bind"]
  /\ UNCHANGED <<arg, res, ident, btnTitle, tasks, rows, timers, lookups, srv>>

GateNext ==
  \/ \E r \in HealthAnswers : HealthResp(r)
  \/ HealthThrow
  \/ Bind
  \/ Next

GateSpec == GateInit /\ [][GateNext]_vars

\* ---------------------------------------------------------------- helpers on their own
\* the controller, the tracker and the server while a helper is called on its own
rest == <<feature, ident, btnText, btnDisabled, btnTitle, pathDisabled, handler, queries,
          tasks, rows, timers, lookups, srv, ev>>

Parked ==
  /\ feature = "bound"
  /\ ident = [df |-> TRUE, url |-> TRUE]
  /\ btnText = LblInit
  /\ btnDisabled = FALSE
  /\ btnTitle = ""
  /\ pathDisabled = FALSE
  /\ handler = NoHandler
  /\ queries = 0
  /\ tasks = [i \in TaskIds |-> IdleTask]
  /\ rows = [r \in TimerIds |-> NoRow]
  /\ timers = [t \in TimerIds |-> NoTimer]
  /\ lookups = 0
  /\ srv = [st |-> "idle", size |-> 0]
  /\ ev = NoEv

\* Math.round((bytes / total) * 100) for naturals, total > 0: the quotient is taken
\* to two decimal places by long division (no product leaves 32 bits) and halves go up
RoundPercent(bytes, total) ==
  LET q0 == bytes \div total
      r0 == bytes % total
      d1 == (r0 * 10) \div total
      r1 == (r0 * 10) % total
      d2 == (r1 * 10) \div total
      r2 == (r1 * 10) % total
  IN  q0 * 100 + d1 * 10 + d2 + (IF 2 * r2 >= total THEN 1 ELSE 0)

\* const pct = total > 0 ? Math.min(100, Math.round((bytes / total) * 100)) : 0
Pct(bytes, total) == IF total > 0 THEN Min({100, RoundPercent(bytes, total)}) ELSE 0

\* the sizes a status poll may report with the sizes data-expected may hold: small
\* ones, and the sizes of real model files
SmallSizes == [bytes : 0..MaxBytes, dataExpected : 0..MaxExpected]
LargeSizes ==
  [bytes : {0, 49999999, 50000000, 99500000, 100000000, 150000000},
   dataExpected : {100000000}]

PctInit ==
  /\ arg \in SmallSizes \cup LargeSizes
  /\ res = <<>>
  /\ Parked

\* one tick of the timer, from the polled size to percentEl.textContent = `${pct}%`;
\* both callers pass expected: 0
ShowPercent ==
  /\ res = <<>>
  /\ res' = [percent |-> Pct(arg.bytes, Total(arg.dataExpected, 0))]
  /\ UNCHANGED <<arg, rest>>

PctNext == ShowPercent

PctSpec == PctInit /\ [][PctNext]_vars

\* Strings that may be handed to normalizeDownloadUrl, by their parts: the scheme with
\* its "://" ("" when the text has none), the host in chunks of text, the segments of
\* the path (each written after a '/') and the parameters of the query.  The empty
\* string has no part at all.
HubHost == "huggingface.co"
Schemes == {"", "https", "HTTPS"}
Hosts ==
  {<<>>, <<HubHost>>, <<"HuggingFace.co">>, <<"cdn", ".", HubHost>>, <<"evil", HubHost>>,
   <<HubHost, ".", "evil.com">>, <<"example.com">>}
Segments == {"blob", "tree", "resolve", "f"}
Params == {"download=true", "download", "x=1", "x"}
EmptyString == [scheme |-> "", host |-> <<>>, path |-> <<>>, query |-> <<>>]
Strings ==
  {u \in [scheme : Schemes, host : Hosts, path : SeqsUpTo(Segments, MaxPath),
          query : SeqsUpTo(Params, MaxParams)] : u.scheme # "" => u.host # <<>>}

\* the URL parser lowercases the scheme and the host
Lower(t) == IF t = "HTTPS" THEN "https" ELSE IF t = "HuggingFace.co" THEN HubHost ELSE t

\* new URL(u) throws unless u is an absolute URL
Parseable(u) == u.scheme # ""

\* new URL(u): scheme and hostname in lower case, the pathname at least "/"
ParseUrl(u) ==
  [scheme |-> Lower(u.scheme),
   host   |-> [i \in 1..Len(u.host) |-> Lower(u.host[i])],
   path   |-> IF u.path = <<>> THEN <<"">> ELSE u.path,
   query  |-> u.query]

\* url.hostname.endsWith('huggingface.co')
HostOnHub(hostname) == hostname # <<>> /\ hostname[Len(hostname)] = HubHost

\* pathname.includes('/' + seg + '/'): a segment seg that another segment follows
Includes(path, seg) == \E i \in 1..(Len(path) - 1) : path[i] = seg

\* pathname.replace('/' + seg + '/', '/' + by + '/'): a string pattern, so the first
\* occurrence only
ReplaceFirst(path, seg, by) ==
  IF Includes(path, seg)
  THEN [path EXCEPT ![Min({i \in 1..(Len(path) - 1) : path[i] = seg})] = by]
  ELSE path

ParamName(p) == IF p \in {"download=true", "download"} THEN "download" ELSE "x"

\* url.searchParams.has(name)
HasParam(query, name) == \E i \in 1..Len(query) : ParamName(query[i]) = name

\* url.searchParams.set('download', 'true') when there is none: the query is written
\* anew from the list of pairs, a bare name as "name=", and the new pair last
SetDownload(query) ==
  Append([i \in 1..Len(query) |-> IF query[i] = "x" THEN "x=" ELSE query[i]],
         "download=true")

\* normalizeDownloadUrl(u)
NormalizeDownloadUrl(u) ==
  IF u = EmptyString THEN EmptyString
  ELSE IF ~Parseable(u) THEN u
  ELSE LET url == ParseUrl(u)
           p1 == ReplaceFirst(url.path, "blob", "resolve")
           p2 == ReplaceFirst(p1, "tree", "resolve")
           q == IF HasParam(url.query, "download") THEN url.query
                ELSE SetDownload(url.query)
       IN  IF HostOnHub(url.host)
           THEN [scheme |-> url.scheme, host |-> url.host, path |-> p2, query |-> q]
           ELSE u

UrlInit ==
  /\ arg \in Strings
  /\ res = <<>>
  /\ Parked

\* url = normalizeDownloadUrl(url) when the row is bound (line 66)
NormalizeOnce ==
  /\ res = <<>>
  /\ res' = <<NormalizeDownloadUrl(arg)>>
  /\ UNCHANGED <<arg, rest>>

\* normalizeDownloadUrl(url) on the stored url when the install body is built (line 137)
NormalizeAgain ==
  /\ Len(res) = 1
  /\ res' = Append(res, NormalizeDownloadUrl(res[1]))
  /\ UNCHANGED <<arg, rest>>

UrlNext == NormalizeOnce \/ NormalizeAgain

UrlSpec == UrlInit /\ [][UrlNext]_vars

\* ---------------------------------------------------------------- label
\* the regular expression of lines 55 and 248 on labels over a small alphabet:
\*   /^(.*?)\s*\/\s*([^\s]+\.[a-z0-9]+)\b/i
LabelChars == {" ", "/", ".", "a", "B", "_"}

\* \s; [a-z0-9] under the i flag; \w
IsSpace(c) == c = " "
IsAlnum(c) == c \in {"a", "B"}
IsWord(c) == IsAlnum(c) \/ c = "_"

Max(S) == CHOOSE x \in S : \A y \in S : x >= y

\* where a greedy \s*, [^\s]+ or [a-z0-9]+ starting at i stops: the first position
\* from i on that is past the end of s or holds a character outside the class
SpacesEnd(s, i) == Min({j \in i..(Len(s) + 1) : j = Len(s) + 1 \/ ~IsSpace(s[j])})
TokenEnd(s, i) == Min({j \in i..(Len(s) + 1) : j = Len(s) + 1 \/ IsSpace(s[j])})
AlnumEnd(s, i) == Min({j \in i..(Len(s) + 1) : j = Len(s) + 1 \/ ~IsAlnum(s[j])})

\* the positions of a '.' at which ([^\s]+\.[a-z0-9]+)\b can match when the group
\* starts at q: one character of the token before it at least, one of [a-z0-9]
\* behind it at least, and a word boundary where the greedy [a-z0-9]+ stops
Dots(s, q) ==
  {n \in (q + 1)..(TokenEnd(s, q) - 2) :
     /\ s[n] = "."
     /\ IsAlnum(s[n + 1])
     /\ LET x == AlnumEnd(s, n + 1) IN x = Len(s) + 1 \/ ~IsWord(s[x])}

\* where group 2 starts when group 1 takes the first k characters: \s*\/\s* behind
\* them, or 0 when no '/' follows the blanks
FileStart(s, k) ==
  LET p == SpacesEnd(s, k + 1)
  IN  IF p <= Len(s) /\ s[p] = "/" THEN SpacesEnd(s, p + 1) ELSE 0

\* the lengths of group 1 with which the whole expression matches
Splits(s) == {k \in 0..Len(s) : FileStart(s, k) # 0 /\ Dots(s, FileStart(s, k)) # {}}

NoMatch == [matched |-> FALSE, directory |-> <<>>, filename |-> <<>>]

\* labelText.match(...): the lazy group 1 takes the fewest characters that let the rest
\* match, the greedy [^\s]+ gives back the fewest; directory = (m[1] || '').trim(),
\* filename = (m[2] || '').trim(), both left undefined without a match
MatchLabel(s) ==
  IF Splits(s) = {} THEN NoMatch
  ELSE LET k == Min(Splits(s))
           q == FileStart(s, k)
           dot == Max(Dots(s, q))
       IN  [matched |-> TRUE,
            directory |-> Trim(SubSeq(s, 1, k)),
            filename |-> Trim(SubSeq(s, q, AlnumEnd(s, dot + 1) - 1))]

\* labels "<dir> / <file.ext>" and labels of any shape
Stems == SeqsUpTo(LabelChars \ {" "}, MaxStem) \ {<<>>}
Exts == SeqsUpTo({"a", "B"}, MaxExt) \ {<<>>}
FormedLabels ==
  {d \o <<" ", "/", " ">> \o st \o <<".">> \o e : d \in SeqsUpTo(LabelChars, MaxDir),
                                                  st \in Stems, e \in Exts}
Labels == FormedLabels \cup SeqsUpTo(LabelChars, MaxFree)

LabelInit ==
  /\ arg \in Labels
  /\ res = <<>>
  /\ Parked

\* the observer's callback reads the row's label: (labelSpan?.textContent || '').trim()
\* and the match of line 55
ResolveLabel ==
  /\ res = <<>>
  /\ res' = <<MatchLabel(Trim(arg))>>
  /\ UNCHANGED <<arg, rest>>

LabelNext == ResolveLabel

LabelSpec == LabelInit /\ [][LabelNext]_vars

\* ---------------------------------------------------------------- query race
\* the status queries of one controller with their responses told apart: arg holds the
\* requests in the order query() issued them, each awaiting the server, answered (the
\* response on its way) or over; res the order in which the responses arrived
Sent == [st |-> "sent", js |-> [present |-> FALSE, state |-> "", size |-> 0, error |-> "",
                                folder |-> "", path |-> <<>>]]

\* a response applied only when no response of a later request has arrived before it
AppliesIfNewest(k, arrived) == \A i \in 1..Len(arrived) : arrived[i] < k

\* query() applies the response of request k whatever has arrived before it: nothing
\* between the await of line 105 and the assignments of lines 113-122 looks at the order
Applies(k, arrived) == TRUE

RaceInit ==
  /\ feature = "bound"
  /\ arg = <<Sent>>
  /\ res = <<>>
  /\ ident \in [df : BOOLEAN, url : BOOLEAN]
  /\ btnText = LblInit
  /\ btnDisabled = FALSE
  /\ btnTitle = ""
  /\ pathDisabled = FALSE
  /\ handler = NoHandler
  /\ queries = 1
  /\ tasks = [i \in TaskIds |-> IdleTask]
  /\ rows = [r \in TimerIds |-> NoRow]
  /\ timers = [t \in TimerIds |-> NoTimer]
  /\ lookups = 0
  /\ srv \in {s \in SrvValues : s.st # "downloading" => s.size \in {0, FileSize}}
  /\ ev = NoEv

\* query() is called again (onComplete of a tracker, or an accepted uninstall) while
\* earlier queries may still be awaiting their responses
IssueQuery ==
  /\ Len(arg) < MaxQueries
  /\ queries < MaxPending
  /\ arg' = Append(arg, Sent)
  /\ queries' = queries + 1
  /\ ev' = [NoEv EXCEPT !.kind = "query", !.ep = QueryString]
  /\ UNCHANGED <<feature, res, ident, btnText, btnDisabled, btnTitle, pathDisabled, handler,
                 tasks, rows, timers, lookups, srv>>

\* the server answers request k from the state it is in
ServerAnswers(k) ==
  /\ k \in 1..Len(arg)
  /\ arg[k].st = "sent"
  /\ \E js \in StatusAnswers(srv) : arg' = [arg EXCEPT ![k] = [st |-> "answered", js |-> js]]
  /\ ev' = NoEv
  /\ UNCHANGED <<feature, res, ident, btnText, btnDisabled, btnTitle, pathDisabled, handler,
                 queries, tasks, rows, timers, lookups, srv>>

\* the response of request k arrives and parses
Arrive(k) ==
  /\ k \in 1..Len(arg)
  /\ arg[k].st = "answered"
  /\ IF Applies(k, res)
     THEN ApplyStatus(arg[k].js)
     ELSE UNCHANGED <<btnText, btnDisabled, pathDisabled, handler>>
  /\ arg' = [arg EXCEPT ![k].st = "over"]
  /\ res' = Append(res, k)
  /\ queries' = queries - 1
  /\ ev' = [NoEv EXCEPT !.kind = "arrived", !.task = k, !.ep = QueryString]
  /\ UNCHANGED <<feature, ident, btnTitle, tasks, rows, timers, lookups, srv>>

\* request k or the parsing of its response throws: setLabel(false)
QueryThrows(k) ==
  /\ k \in 1..Len(arg)
  /\ arg[k].st \in {"sent", "answered"}
  /\ btnText' = SetLabel(FALSE)
  /\ arg' = [arg EXCEPT ![k].st = "over"]
  /\ queries' = queries - 1
  /\ ev' = [NoEv EXCEPT !.kind = "queryFail", !.ep = QueryString]
  /\ UNCHANGED <<feature, res, ident, btnDisabled, btnTitle, pathDisabled, handler, tasks,
                 rows, timers, lookups, srv>>

RaceNext ==
  \/ IssueQuery
  \/ \E k \in 1..MaxQueries : ServerAnswers(k)
  \/ \E k \in 1..MaxQueries : Arrive(k)
  \/ \E k \in 1..MaxQueries : QueryThrows(k)
  \/ SrvProgress
  \/ SrvFinish
  \/ SrvFail

RaceSpec == RaceInit /\ [][RaceNext]_vars

\* ---------------------------------------------------------------- path chooser
\* the <select> of the row on its own: updatePathSelector, the user's choice, and the
\* path field of the install body.  arg is the chooser, res the bodies built from it.
StoragePaths == {"/a", "/b"}
StorageLists == SeqsUpTo(StoragePaths, MaxOptions)

\* pathSelector as created: no option, style.display = 'none'
NoChooser == [options |-> <<>>, selected |-> 0, display |-> FALSE, listed |-> 0,
              touched |-> FALSE]

\* pathSelector.value: the value of the selected option, '' without one
ChooserValue(sel) == IF sel.selected = 0 THEN "" ELSE sel.options[sel.selected]

\* updatePathSelector: with more than one path the options are rebuilt, the first one
\* selected and the chooser shown; otherwise it is hidden and keeps its options
UpdatedChooser(sel, paths) ==
  IF Len(paths) > 1
  THEN [options |-> paths, selected |-> 1, display |-> TRUE, listed |-> Len(paths),
        touched |-> FALSE]
  ELSE [sel EXCEPT !.display = FALSE, !.listed = Len(paths)]

\* the install body of btn.onclick with its body.path:
\* if (pathSelector.style.display !== 'none' && pathSelector.value)
InstallBody(sel) ==
  LET body == Body([present |-> FALSE])
  IN  IF sel.display /\ ChooserValue(sel) # ""
      THEN body @@ [path |-> ChooserValue(sel)]
      ELSE body

ChooserInit ==
  /\ arg = NoChooser
  /\ res = <<>>
  /\ Parked

\* query() hands js.storage_info to updatePathSelector (lines 109-111); paths is
\* storage[directory] || []
UpdatePathSelector(paths) ==
  /\ arg' = UpdatedChooser(arg, paths)
  /\ res' = <<>>
  /\ UNCHANGED rest

\* the user picks option k of the shown chooser
SelectOption(k) ==
  /\ arg.display
  /\ k \in 1..Len(arg.options)
  /\ arg' = [arg EXCEPT !.selected = k, !.touched = TRUE]
  /\ res' = <<>>
  /\ UNCHANGED rest

\* btn.onclick builds the body of an install
BuildInstallBody ==
  /\ res = <<>>
  /\ res' = <<InstallBody(arg)>>
  /\ UNCHANGED <<arg, rest>>

ChooserNext ==
  \/ \E paths \in StorageLists : UpdatePathSelector(paths)
  \/ \E k \in 1..MaxOptions : SelectOption(k)
  \/ BuildInstallBody

ChooserSpec == ChooserInit /\ [][ChooserNext]_vars

\* ---------------------------------------------------------------- claims
Quiet == queries = 0 /\ TasksInFlight = 0

\* the tracker of timer t is where the end-to-end scenario has it once the download is
\* over: the control shows 'Downloading…' disabled after the accepted install, t is the
\* one timer of the key, nothing else of the controller is pending, the size lookup has
\* put expected > 0 on the row the timer reads, and the server holds the whole file
\* (present, size >= expected)
C1_Tracking(t) ==
  /\ timers[t].active
  /\ \A u \in TimerIds \ {t} : ~Live(timers, u)
  /\ rows[timers[t].row].expected > 0
  /\ lookups = 0
  /\ Quiet
  /\ btnText = LblDownloading /\ btnDisabled
  /\ srv.st = "idle" /\ srv.size >= rows[timers[t].row].expected

C1_Settled(t) ==
  timers[t].used /\ ~timers[t].active /\ btnText = LblUninstall /\ ~btnDisabled

C2_OneRetryAfterLogin ==
  \A i \in TaskIds :
    /\ tasks[i].posts <= 2
    /\ tasks[i].posts = 2 =>
         /\ tasks[i].r1.status = 401 /\ tasks[i].r1.code = "auth_required"
         /\ tasks[i].tok # <<>>
         /\ Ok(tasks[i].lr)

C2_Witness == \E i \in TaskIds : tasks[i].pc = "post2" /\ tasks[i].posts = 2

\* C3 (as claimed): after the one retry that follows a successful login, success leaves
\* a tracker for the key and 'Downloading…' disabled; failure leaves 'Retry Install'
\* enabled and the alert shows the retry's message.
C3_RetryOutcome ==
  /\ (ev.kind = "retryOk" /\ ev.inst) =>
       /\ AttachedRow # 0
       /\ \E t \in TimerIds : timers[t].active /\ timers[t].row = AttachedRow
       /\ btnText = LblDownloading /\ btnDisabled
  /\ (ev.kind = "retryFail" /\ ev.inst) =>
       /\ btnText = LblRetry /\ ~btnDisabled
       /\ ev.alert = ev.msg

FailureKinds ==
  {"queryFail", "insufficient", "postFail", "promptCancel", "loginFail", "retryFail"}

\* C4 (as claimed): whenever nothing of the controller is pending and the last query,
\* POST, login or re-query failed, the button is enabled and has a click handler.
C4_FailureLeavesClickable ==
  (Quiet /\ ev.kind \in FailureKinds) => (~btnDisabled /\ handler.set)

\* C5 (as claimed): the request a click issues is the uninstall request exactly when the
\* label at click time is 'Uninstall'.
C5_RequestMatchesLabel ==
  ev.kind = "post" => (ev.ep = "/models/uninstall" <=> ev.label = LblUninstall)

\* C6 (as claimed): a progress entry exists for the key exactly when the controller
\* displays the Downloading state.
C6_EntryIffDownloading == (AttachedRow # 0) <=> (btnText = LblDownloading)

\* C7: a tick cancels its timer or invokes onComplete (which starts a query) only when
\* the polled status is present, the effective expected size is > 0 and the polled size
\* has reached it; never while the expected size is 0.
C7_CompletionOnlyWhenDone ==
  [][ \A t \in TimerIds :
        ((timers[t].active /\ ~timers'[t].active)
           \/ (ev'.kind = "tick" /\ ev'.timer = t /\ queries' > queries))
        => /\ ev'.kind = "tick" /\ ev'.timer = t
           /\ ev'.present /\ ev'.total > 0 /\ ev'.bytes >= ev'.total ]_vars

C7_Witness ==
  /\ ev.kind = "tick" /\ ev.present /\ ev.total > 0 /\ ev.bytes >= ev.total
  /\ ~timers[ev.timer].active /\ queries > 0

\* C8 (as claimed): after any sequence of startDownloadProgress calls the key has at
\* most one progress entry and at most one active polling timer.
C8_OneEntryOneTimer ==
  /\ Cardinality({r \in TimerIds : rows[r].state = "attached"}) <= 1
  /\ Cardinality({t \in TimerIds : timers[t].active}) <= 1

\* C9 (as claimed): once a progress entry has been dismissed, no status poll is issued
\* for it and no tick of its timer declares completion (invoking onComplete).
C9_DismissStopsTimer ==
  ((\/ ev.kind = "poll"
    \/ ev.kind = "tick" /\ ev.present /\ ev.total > 0 /\ ev.bytes >= ev.total)
   /\ timers[ev.timer].row # 0)
    => ~rows[timers[ev.timer].row].dismissed

\* C10 (as claimed): a status response with state = 'failed' leaves the control
\* reading 'Retry Install', enabled, with the server's error text as its tooltip.
C10_FailedShowsRetry ==
  (ev.kind = "status" /\ ev.state = "failed") =>
    (btnText = LblRetry /\ ~btnDisabled /\ btnTitle = ev.msg)

\* C11: a status query whose request or parsing fails completes without an alert or any
\* other trace of an exception, and leaves the label a response with present = false
\* would set: 'Install'.
C11_FailedQueryShowsInstall ==
  ev.kind = "queryFail" =>
    /\ btnText = QueryLabel([present |-> FALSE, state |-> "idle"])
    /\ btnText = LblInstall
    /\ ev.alert = ""

C11_Witness == ev.kind = "queryFail" /\ handler.set /\ handler.present /\ btnText = LblInstall

\* the part of a path after its last '/' or '\', the whole path when it has neither
LastSegment(path) ==
  LET seps == {i \in 1..Len(path) : path[i] \in {"/", "\\"}}
      from == IF seps = {} THEN 1 ELSE (CHOOSE i \in seps : \A k \in seps : k <= i) + 1
  IN  SubSeq(path, from, Len(path))

\* C12: a status response with present = true and a state other than 'downloading'
\* leaves the label 'Uninstall', and the click on 'Uninstall' posts /models/uninstall
\* with the body {directory: folder, name: last segment of path} of that response.
C12_UninstallRequest ==
  /\ (ev.kind = "status" /\ ev.present /\ ev.state # "downloading") =>
       (btnText = LblUninstall /\ handler.folder = ServerFolder
          /\ handler.path \in ServerPaths)
  /\ (ev.kind = "post" /\ ev.label = LblUninstall) =>
       /\ ev.ep = "/models/uninstall"
       /\ ev.body = [directory |-> handler.folder, name |-> LastSegment(handler.path)]
       /\ ev.body.name = <<"f", ".", "s">>

C12_Witness ==
  /\ ev.kind = "post" /\ ev.label = LblUninstall /\ ev.ep = "/models/uninstall"
  /\ \E i \in 1..Len(handler.path) : handler.path[i] = "\\"

\* C13 (as claimed): the percentage shown is min(100, round(bytes / expected * 100))
\* when expected > 0, exactly 50 for 50000000 of 100000000 bytes, and it is not shown
\* as 0 when expected = 0.
C13_PercentShown ==
  res # <<>> =>
    /\ (arg \in SmallSizes /\ arg.dataExpected > 0) =>
         \E q \in 0..100 :
           /\ res.percent = q
           /\ \/ q = 100 /\ 2 * arg.bytes * 100 >= 199 * arg.dataExpected
              \/ /\ q < 100
                 /\ (2 * q - 1) * arg.dataExpected <= 2 * arg.bytes * 100
                 /\ 2 * arg.bytes * 100 < (2 * q + 1) * arg.dataExpected
    /\ (arg.bytes = 50000000 /\ arg.dataExpected = 100000000) => res.percent = 50
    /\ arg.dataExpected = 0 => res.percent # 0

\* C14 (as claimed): normalizing a normalized string changes nothing, for every
\* input string.
C14_Idempotent == Len(res) = 2 => res[2] = res[1]

\* the host of the URL is the hub's host or a subdomain of it
OnHubOrSubdomain(hostname) ==
  \/ hostname = <<HubHost>>
  \/ Len(hostname) >= 3 /\ hostname[Len(hostname)] = HubHost
       /\ hostname[Len(hostname) - 1] = "."

\* C15 (as claimed): a string that is not an absolute URL, and a URL whose host is
\* neither the hub's host nor a subdomain of it, is returned unchanged.
C15_OthersUnchanged ==
  Len(res) >= 1 =>
    ((~Parseable(arg) \/ ~OnHubOrSubdomain(ParseUrl(arg).host)) => res[1] = arg)

Blanks(n) == [i \in 1..n |-> " "]

\* C16: the token dialog resolves once.  A submission of blanks leaves it open, with
\* its message and unresolved; a submission of anything else closes it and resolves
\* with the typed value less its leading and trailing blanks; Cancel closes it and
\* resolves with nothing (the activation ends with the 'token required' alert); a
\* closed dialog has resolved once and an open one not at all.
C16_PromptResolvesOnce ==
  /\ \A i \in TaskIds :
       /\ tasks[i].resolved <= 1
       /\ tasks[i].pc = "prompt" => (tasks[i].resolved = 0 /\ tasks[i].tok = <<>>)
       /\ tasks[i].pc \in {"login", "post2"} => tasks[i].resolved = 1
  /\ ev.kind = "emptySubmit" =>
       /\ tasks[ev.task].pc = "prompt"
       /\ tasks[ev.task].dlgMsg
       /\ tasks[ev.task].resolved = 0
  /\ ev.kind = "submit" =>
       LET tok == tasks[ev.task].tok IN
         /\ tasks[ev.task].pc = "login"
         /\ tok # <<>> /\ tok[1] # " " /\ tok[Len(tok)] # " "
         /\ \E m, n \in 0..Len(ev.typed) : ev.typed = Blanks(m) \o tok \o Blanks(n)
  /\ ev.kind = "promptCancel" =>
       (tasks[ev.task].pc = "idle" /\ ev.alert = MsgTokenRequired)

C16_Witness ==
  /\ ev.kind = "submit"
  /\ tasks[ev.task].dlgMsg
  /\ ev.typed # tasks[ev.task].tok
  /\ tasks[ev.task].resolved = 1

\* C17: a size lookup that fails, or is answered without a size, puts expected = 0 on
\* the entry of the key and is no error: nothing is alerted, the label, the button and
\* the timers stay as they are; and with no entry in the panel a finished lookup
\* changes no entry at all.
C17_LookupFailureIsUnknown ==
  [][ ev'.kind \in {"lookup", "lookupFail"} =>
        /\ btnText' = btnText /\ btnDisabled' = btnDisabled
        /\ timers' = timers /\ tasks' = tasks /\ queries' = queries
        /\ ev'.alert = ""
        /\ (ev'.kind = "lookupFail" \/ ev'.total = 0) =>
             \A r \in TimerIds :
               rows'[r] = IF rows[r].state = "attached"
                          THEN [rows[r] EXCEPT !.expected = 0] ELSE rows[r]
        /\ AttachedRow = 0 => rows' = rows ]_vars

C17_Witness ==
  /\ ev.kind = "lookupFail"
  /\ btnText = LblDownloading /\ btnDisabled
  /\ AttachedRow # 0 /\ rows[AttachedRow].expected = 0
  /\ \E t \in TimerIds : timers[t].active /\ timers[t].row = AttachedRow

\* C18: when the health check fails, is answered with a non-2xx status or with
\* ok = false, no controller is built for the entry and no status, install, uninstall,
\* login, progress or size request is ever in flight.
C18_InactiveWithoutHealth ==
  (feature # "checking" /\ (arg.threw \/ ~arg.ok \/ ~arg.dataOk)) =>
    /\ feature = "inactive"
    /\ handler = NoHandler /\ btnText = LblInit
    /\ queries = 0 /\ lookups = 0
    /\ \A i \in TaskIds : tasks[i] = IdleTask
    /\ \A t \in TimerIds : timers[t] = NoTimer /\ rows[t] = NoRow
    /\ ev.kind \in {NoEv.kind, "health", "healthThrow"} /\ ev.ep = ""

C18_Witness ==
  /\ feature = "inactive"
  /\ ~arg.threw /\ arg.ok /\ ~arg.dataOk
  /\ ev = NoEv /\ srv.st = "downloading"

\* a file name "<stem>.<ext>": no blank in it, a stem, and an extension of letters
\* and digits
FileExt(f) ==
  /\ \A j \in 1..Len(f) : ~IsSpace(f[j])
  /\ \E d \in 2..(Len(f) - 1) :
       f[d] = "." /\ \A j \in (d + 1)..Len(f) : IsAlnum(f[j])

\* where " / " stands in a label "<dir> / <file.ext>" (a file name holds no blank, so
\* at one place at most)
Seps(l) ==
  {i \in 1..(Len(l) - 3) :
     SubSeq(l, i, i + 2) = <<" ", "/", " ">> /\ FileExt(SubSeq(l, i + 3, Len(l)))}

\* C19: a label "<dir> / <file.ext>" resolves to directory = dir trimmed and
\* filename = file.ext, and a label without any '/' or without any '.' resolves to
\* nothing.
C19_LabelResolved ==
  Len(res) = 1 =>
    /\ \A i \in Seps(arg) :
         res[1] = [matched |-> TRUE,
                   directory |-> Trim(SubSeq(arg, 1, i - 1)),
                   filename |-> SubSeq(arg, i + 3, Len(arg))]
    /\ (\A j \in 1..Len(arg) : arg[j] # "/") \/ (\A j \in 1..Len(arg) : arg[j] # ".")
         => res[1] = NoMatch

\* C20: a retry after the login that the server accepts is handled as an accepted
\* first attempt of the same kind: an install shows 'Downloading…' and starts a
\* tracker; an uninstall queries again, starts no tracker and does not show
\* 'Downloading…'.
C20_RetryLikeFirstAttempt ==
  [][ ev'.kind = "retryOk" =>
        /\ (ev'.inst /\ ~ev'.present) =>
             /\ btnText' = LblDownloading /\ btnDisabled'
             /\ timers' # timers
        /\ (~ev'.inst /\ ev'.present) =>
             /\ btnText' # LblDownloading
             /\ timers' = timers /\ rows' = rows /\ lookups' = lookups
             /\ queries' = queries + 1 ]_vars

\* the control as the Downloading state shows it
ShownDownloading == btnText = LblDownloading /\ btnDisabled /\ pathDisabled

\* C21: a status response with state 'downloading' puts the control at 'Downloading…',
\* disabled, with the path chooser disabled, whatever its present flag; and while that
\* response is the last outcome of a status query the control stays so through every
\* other step.
C21_DownloadingShown ==
  [][ /\ (ev'.kind = "status" /\ ev'.state = "downloading") => ShownDownloading'
      /\ (handler.set /\ handler.state = "downloading" /\ ShownDownloading
            /\ ev'.kind \notin {"status", "queryFail"}) => ShownDownloading' ]_vars

\* C22: when the first POST of an uninstall request is answered 2xx the controller
\* queries again: one more status query is pending, and no tracker row, timer or size
\* lookup is started; and when the outcome of that query comes next and no other query
\* is pending, the button is enabled again (or shows a download the response reports).
C22_UninstallRequeries ==
  [][ /\ (ev'.kind = "accepted" /\ ev'.present) =>
           /\ queries' = queries + 1
           /\ timers' = timers /\ rows' = rows /\ lookups' = lookups
      /\ (ev.kind = "accepted" /\ ev.present /\ ev'.kind \in {"status", "queryFail"}
            /\ queries' = 0) =>
           \/ ~btnDisabled'
           \/ ev'.kind = "status" /\ ev'.state = "downloading" /\ ShownDownloading' ]_vars

\* C23: when the first POST of an uninstall clicked on 'Uninstall' is refused (not the
\* handled 401 auth_required) or throws, the button is enabled again and still reads
\* 'Uninstall', the server's message (or the fallback, or the error's own message) is
\* alerted, and no status query, tracker or size lookup is started.
C23_UninstallFailureRestores ==
  [][ (ev'.kind = "postFail" /\ ev'.present /\ ~ev'.inst) =>
        /\ ~btnDisabled' /\ btnText' = LblUninstall
        /\ ev'.alert = (IF ev'.msg # "" THEN ev'.msg ELSE ev'.alert)
        /\ ev'.alert \in {ErrFirst, MsgOpFailed, MsgTransport}
        /\ queries' = queries
        /\ timers' = timers /\ rows' = rows /\ lookups' = lookups ]_vars

\* C24: the install body has a path field only when the user has picked an option
\* other than the one selected by default, and never when the last status response
\* listed fewer than two storage options.
C24_PathOnlyWhenChosen ==
  (Len(res) = 1 /\ "path" \in DOMAIN res[1]) =>
    /\ arg.touched /\ arg.selected # 1
    /\ arg.listed >= 2

\* C25: with the item not present and the directory and filename, or the url, missing,
\* a click posts nothing, ends in an alert of its own error and leaves the button
\* enabled reading 'Install'; and the status query of an item without directory and
\* filename carries the url alone.
C25_MalformedIdentity ==
  [][ /\ (ev'.kind \in {"post", "insufficient"} /\ ~handler.present
            /\ ~(ident.df /\ ident.url)) =>
           /\ ev'.kind = "insufficient" /\ ev'.alert = MsgInsufficient
           /\ tasks' = tasks /\ srv' = srv /\ queries' = queries
           /\ timers' = timers /\ rows' = rows /\ lookups' = lookups
           /\ btnText' = LblInstall /\ ~btnDisabled'
      /\ (ev'.kind \in {"status", "queryFail"} /\ ~ident.df /\ ident.url) =>
           ev'.ep = "url" ]_vars

C25_Witness ==
  /\ ev.kind = "insufficient" /\ ~ident.df /\ ident.url /\ ~handler.present
  /\ btnText = LblInstall /\ ~btnDisabled /\ TasksInFlight = 0

\* C26: the response of a status query is applied when it arrives, whatever arrived
\* before it: right after an arrival the label, the enabled flag and the click handler
\* are those of the response that just arrived, also when the response of a request
\* issued later has arrived first.
C26_LastArrivalWins ==
  ev.kind = "arrived" =>
    LET js == arg[ev.task].js
    IN  /\ btnText = QueryLabel(js)
        /\ btnDisabled = QueryDisabled(js)
        /\ handler = Closure(js)

C26_Witness ==
  /\ ev.kind = "arrived"
  /\ res = <<2, 1>>
  /\ QueryLabel(arg[1].js) # QueryLabel(arg[2].js)
  /\ btnText = QueryLabel(arg[1].js) /\ handler = Closure(arg[1].js)

\* C27: a tracker calls onComplete at most once: a tick that calls it (and so starts a
\* status query) belongs to a timer that no earlier tick has cleared.
C27_OnCompleteOnce ==
  [][ (ev'.kind = "tick" /\ queries' = queries + 1) => timers[ev'.timer].active ]_vars

\* C28: while a click is being handled (its POST, the token dialog, the login or the
\* retry is pending) the button is disabled, whatever else is applied meanwhile.
C28_DisabledWhileInFlight == TasksInFlight > 0 => btnDisabled

====
